---- MODULE Spec2Model ----
(***************************************************************************)
(* Model of the virtual keyboard programs:                                 *)
(*   variant "gesture"  : VirtualKeyboard          (virtual_keyboard.py)   *)
(*   variant "simple"   : SimpleVirtualKeyboard    (simple_demo.py)        *)
(*   variant "opencv"   : SimpleVirtualKeyboard    (test_opencv.py)        *)
(*   variant "enhanced" : EnhancedVirtualKeyboard  (enhanced_demo.py)      *)
(* One program runs per behaviour; Init chooses which.                     *)
(*                                                                         *)
(* Time is counted in ticks of 0.1 s.  Pixel coordinates are integers.     *)
(* Text is a sequence of one-character strings.                            *)
(***************************************************************************)
EXTENDS Integers, Sequences, FiniteSets, TLC

VARIABLES
    variant,        \* which program is running
    pc,             \* "running" | "stopped" (the while True loop of run was
                    \* left) | "crashed" (an exception left run)
    now,            \* time.time() as of the last iteration of run
    typed_text,     \* self.typed_text
    last_key_time,  \* self.last_key_time (gesture)
    current_key,    \* self.current_key / the local current_key
    pos,            \* index_pos (NoPoint without a hand) / self.mouse_pos / the
                    \* (x, y) of the callback
    thumb_pos,      \* thumb_pos of the last frame (NoPoint without a hand)
    hand,           \* results.multi_hand_landmarks of the last frame
    touching,       \* result of the touching test in the last frame
    frame_size,     \* <<width, height>> of the frames the camera delivers
    injected,       \* pyautogui.press in the last iteration: "none" (not
                    \* called), "ok" (returned) or "failed" (raised)
    \* ---- history (observation only, never read by the program) ----
    events,         \* log of applied key events: [key, time]
    text_before,    \* typed_text as it was when the last event was applied
    held_fired,     \* the pinch that is currently closed has emitted an event
    closure,        \* the last pinch closure
    clicks          \* points of the left-button-down events handled so far

vars == <<variant, pc, now, typed_text, last_key_time, current_key, pos,
          thumb_pos, hand, touching, frame_size, injected, events, text_before,
          held_fired, closure, clicks>>

----------------------------------------------------------------------------
(* Bounds of the exploration *)

StartTime == 6      \* time.time() at start-up: far more than key_press_delay after 0
MaxTicks == 6       \* clock ticks explored
MaxDt == 2          \* most ticks between two consecutive frames
MaxEvents == 3      \* key events explored in the variants without a clock
MaxClicks == 3      \* left-button-down events explored

----------------------------------------------------------------------------
(* Program constants *)

None == "None"

\* virtual_keyboard.py 41-46 (test_opencv.py 26-31 and enhanced_demo.py 27-32
\* hold the same rows)
keyboard_layout ==
    << <<"Q", "W", "E", "R", "T", "Y", "U", "I", "O", "P">>,
       <<"A", "S", "D", "F", "G", "H", "J", "K", "L">>,
       <<"Z", "X", "C", "V", "B", "N", "M">>,
       <<"SPACE", "BACK">> >>

\* virtual_keyboard.py 49-53 (test_opencv.py 34-38, enhanced_demo.py 35-39: same values)
key_width == 50
key_height == 50
key_margin == 20
keyboard_start_x == 150
keyboard_start_y == 450

touch_threshold == 30       \* virtual_keyboard.py 56
key_press_delay == 5        \* virtual_keyboard.py 58: 0.5 s

\* simple_demo.py 28, 38-40, 33
simple_keys == <<"A", "B", "C", "D", "E">>
simple_start_x == 100
simple_start_y == 400
simple_key_width == 100
simple_key_height == 100
simple_spacing == 120
simple_touch_threshold == 40

\* cv2 mouse events delivered to mouse_callback
EVENT_LBUTTONDOWN == "LBUTTONDOWN"
MouseEvents == {"MOUSEMOVE", EVENT_LBUTTONDOWN, "LBUTTONUP", "RBUTTONDOWN"}

\* The characters of a key label (Python: the str itself, appended by +=)
Chars(label) ==
    IF label = "SPACE" THEN <<"S", "P", "A", "C", "E">>
    ELSE IF label = "BACK" THEN <<"B", "A", "C", "K">>
    ELSE <<label>>

----------------------------------------------------------------------------
(* Pure functions *)

\* calculate_distance / get_distance return sqrt(dx^2 + dy^2); the model keeps
\* the square, which orders the same way (sqrt is monotone and exact on the
\* perfect squares the thresholds compare with).
calculate_distance_sq(point1, point2) ==
    (point1[1] - point2[1]) * (point1[1] - point2[1])
  + (point1[2] - point2[2]) * (point1[2] - point2[2])

is_finger_touching_thumb_lax(thumb, index) ==
    calculate_distance_sq(thumb, index) <= touch_threshold * touch_threshold

\* VirtualKeyboard.is_finger_touching_thumb: distance < self.touch_threshold
is_finger_touching_thumb(thumb, index) ==
    calculate_distance_sq(thumb, index) < touch_threshold * touch_threshold

\* SimpleVirtualKeyboard.is_touching (simple_demo.py): distance < self.touch_threshold
is_touching(thumb, index) ==
    calculate_distance_sq(thumb, index) < simple_touch_threshold * simple_touch_threshold

\* The loops of get_key_at_position: rows top to bottom, columns left to
\* right, the first rectangle that contains (x, y), bounds included.
RECURSIVE ScanLayout(_, _, _, _)
ScanLayout(row_idx, col_idx, x, y) ==
    IF row_idx > Len(keyboard_layout) THEN None
    ELSE IF col_idx > Len(keyboard_layout[row_idx]) THEN ScanLayout(row_idx + 1, 1, x, y)
    ELSE LET key_x == keyboard_start_x + (col_idx - 1) * (key_width + key_margin)
             key_y == keyboard_start_y + (row_idx - 1) * (key_height + key_margin)
         IN  IF /\ key_x <= x /\ x <= key_x + key_width
                /\ key_y <= y /\ y <= key_y + key_height
             THEN keyboard_layout[row_idx][col_idx]
             ELSE ScanLayout(row_idx, col_idx + 1, x, y)

RECURSIVE ScanLayout_nomargin(_, _, _, _)
ScanLayout_nomargin(row_idx, col_idx, x, y) ==
    IF row_idx > Len(keyboard_layout) THEN None
    ELSE IF col_idx > Len(keyboard_layout[row_idx])
         THEN ScanLayout_nomargin(row_idx + 1, 1, x, y)
    ELSE LET key_x == keyboard_start_x + (col_idx - 1) * key_width
             key_y == keyboard_start_y + (row_idx - 1) * key_height
         IN  IF /\ key_x <= x /\ x <= key_x + key_width
                /\ key_y <= y /\ y <= key_y + key_height
             THEN keyboard_layout[row_idx][col_idx]
             ELSE ScanLayout_nomargin(row_idx, col_idx + 1, x, y)

RECURSIVE ScanLayout_open(_, _, _, _)
ScanLayout_open(row_idx, col_idx, x, y) ==
    IF row_idx > Len(keyboard_layout) THEN None
    ELSE IF col_idx > Len(keyboard_layout[row_idx])
         THEN ScanLayout_open(row_idx + 1, 1, x, y)
    ELSE LET key_x == keyboard_start_x + (col_idx - 1) * (key_width + key_margin)
             key_y == keyboard_start_y + (row_idx - 1) * (key_height + key_margin)
         IN  IF /\ key_x < x /\ x < key_x + key_width
                /\ key_y < y /\ y < key_y + key_height
             THEN keyboard_layout[row_idx][col_idx]
             ELSE ScanLayout_open(row_idx, col_idx + 1, x, y)

get_key_at_position_nomargin(x, y) == ScanLayout_nomargin(1, 1, x, y)

get_key_at_position_open(x, y) == ScanLayout_open(1, 1, x, y)

\* get_key_at_position of VirtualKeyboard; test_opencv.py 116-126 and
\* enhanced_demo.py 220-230 are the same code over the same constants.
get_key_at_position(x, y) == ScanLayout(1, 1, x, y)

\* SimpleVirtualKeyboard.setup_keyboard (simple_demo.py): key_positions
key_positions_abut ==
    [i \in 1..Len(simple_keys) |->
        [key |-> simple_keys[i],
         x |-> simple_start_x + (i - 1) * simple_key_width,
         y |-> simple_start_y,
         width |-> simple_key_width,
         height |-> simple_key_height]]

key_positions ==
    [i \in 1..Len(simple_keys) |->
        [key |-> simple_keys[i],
         x |-> simple_start_x + (i - 1) * simple_spacing,
         y |-> simple_start_y,
         width |-> simple_key_width,
         height |-> simple_key_height]]

\* SimpleVirtualKeyboard.get_key_at_position (simple_demo.py)
RECURSIVE ScanPositions(_, _, _)
ScanPositions(i, x, y) ==
    IF i > Len(key_positions) THEN None
    ELSE LET key_info == key_positions[i]
         IN  IF /\ key_info.x <= x /\ x <= key_info.x + key_info.width
                /\ key_info.y <= y /\ y <= key_info.y + key_info.height
             THEN key_info.key
             ELSE ScanPositions(i + 1, x, y)

simple_get_key_at_position(p) == ScanPositions(1, p[1], p[2])

\* Python s[:-1]
DropLast(text) == SubSeq(text, 1, Len(text) - 1)

\* The debounce test of type_key: current_time - self.last_key_time > self.key_press_delay
DebounceElapsed_none(current_time, last) == TRUE

DebounceElapsed_short(current_time, last) == current_time - last > key_press_delay - 1

DebounceElapsed(current_time, last) == current_time - last > key_press_delay

\* The try/except around pyautogui.press in type_key (237-246): does type_key
\* go on to its last statement when the call returned (ok) or raised (~ok)?
\* The bare except swallows whatever was raised.
injection_survived_unguarded(ok) == ok

injection_survived(ok) == TRUE

\* self.last_key_time after type_key returned: assigned current_time at the
\* end of the debounce branch (248), whatever the key did to the buffer, and
\* left alone when the debounce test failed.
type_key_time_always(key, text, current_time, last) == current_time

type_key_time_onchange(key, text, current_time, last) ==
    IF DebounceElapsed(current_time, last) /\ ~(key = "BACK" /\ text = <<>>)
    THEN current_time ELSE last

type_key_time(key, text, current_time, last) ==
    IF DebounceElapsed(current_time, last) THEN current_time ELSE last

\* The key dispatch of type_key (virtual_keyboard.py 223-235)
type_key_text_label(key, text) ==
    IF key = "BACK" THEN (IF text # <<>> THEN DropLast(text) ELSE text)
    ELSE text \o Chars(key)

type_key_text_noback(key, text) ==
    IF key = "SPACE" THEN text \o <<" ">>
    ELSE text \o Chars(key)

type_key_text_prepend(key, text) ==
    IF key = "SPACE" THEN text \o <<" ">>
    ELSE IF key = "BACK" THEN (IF text # <<>> THEN DropLast(text) ELSE text)
    ELSE Chars(key) \o text

type_key_text(key, text) ==
    IF key = "SPACE" THEN text \o <<" ">>
    ELSE IF key = "BACK" THEN (IF text # <<>> THEN DropLast(text) ELSE text)
    ELSE text \o Chars(key)

\* The key dispatch of SimpleVirtualKeyboard.mouse_callback (test_opencv.py 133-145)
opencv_click_text_twice(key, text) ==
    IF key = "SPACE" THEN text \o <<" ">>
    ELSE IF key = "BACK" THEN (IF text # <<>> THEN DropLast(text) ELSE text)
    ELSE text \o Chars(key) \o Chars(key)

opencv_click_text(key, text) ==
    IF key = "SPACE" THEN text \o <<" ">>
    ELSE IF key = "BACK" THEN (IF text # <<>> THEN DropLast(text) ELSE text)
    ELSE text \o Chars(key)

\* The key dispatch of EnhancedVirtualKeyboard.mouse_callback (enhanced_demo.py 243-255)
enhanced_click_text_prepend(key, text) ==
    IF key = "SPACE" THEN text \o <<" ">>
    ELSE IF key = "BACK" THEN (IF text # <<>> THEN DropLast(text) ELSE text)
    ELSE Chars(key) \o text

enhanced_click_text(key, text) ==
    IF key = "SPACE" THEN text \o <<" ">>
    ELSE IF key = "BACK" THEN (IF text # <<>> THEN DropLast(text) ELSE text)
    ELSE text \o Chars(key)

----------------------------------------------------------------------------
(* Inputs *)

\* Fingertip / pointer positions explored by Spec on the four-row layout:
\* a corner of Q, the margin gap next to it, SPACE, BACK.
SamplePoints == {<<150, 450>>, <<219, 450>>, <<175, 685>>, <<245, 685>>}

\* Positions explored on the five-key layout of simple_demo.py:
\* a corner of A, the gap next to it, a corner of B, and a fingertip 20 px
\* to the right of E, which is outside a 640 px wide frame.
SimplePoints == {<<200, 500>>, <<210, 450>>, <<220, 400>>, <<700, 450>>}

\* Thumb tip relative to the index tip: distance 29, exactly 30, 31 ...
GestureOffsets == {<<29, 0>>, <<18, 24>>, <<31, 0>>}

\* ... and 39, exactly 40, 41.
SimpleOffsets == {<<39, 0>>, <<24, 32>>, <<41, 0>>}

\* A frame's sample: no hand, or the index tip and the thumb's offset from it.
NoHand == <<>>

Samples(Points, Offsets) == {NoHand} \cup {<<p, off>> : p \in Points, off \in Offsets}

NoPoint == <<640, 360>>

\* Positions explored by SpecResolve: around every edge of every column and
\* row of the layout, one column past the longest row.
GridXs ==
    UNION { LET kx == keyboard_start_x + c * (key_width + key_margin)
            IN  {kx - 1, kx, kx + (key_width \div 2), kx + key_width, kx + key_width + 1}
            : c \in 0..Len(keyboard_layout[1]) }

GridYs ==
    UNION { LET ky == keyboard_start_y + r * (key_height + key_margin)
            IN  {ky - 1, ky, ky + (key_height \div 2), ky + key_height, ky + key_height + 1}
            : r \in 0..(Len(keyboard_layout) - 1) }

GridPoints == GridXs \X GridYs

\* The same around the five keys of simple_demo.py
SimpleGridXs ==
    UNION { LET kx == simple_start_x + i * simple_spacing
            IN  {kx - 1, kx, kx + (simple_key_width \div 2), kx + simple_key_width,
                 kx + simple_key_width + 1}
            : i \in 0..(Len(simple_keys) - 1) }

SimpleGridYs ==
    {simple_start_y - 1, simple_start_y, simple_start_y + (simple_key_height \div 2),
     simple_start_y + simple_key_height, simple_start_y + simple_key_height + 1}

SimpleGridPoints == SimpleGridXs \X SimpleGridYs

\* closure: when the pinch last closed (touching in a frame that follows one
\* that was not), the key hovered then, whether that frame emitted; and, when
\* the closure before it was over the same key and emitted: gap, the time
\* between the two, and grown, the events emitted from the earlier closure up
\* to and including this one.
NoClosure == [time |-> -1, key |-> None, fired |-> FALSE, gap |-> -1, grown |-> 0]

\* The events logged before time t
Before(log, t) == Cardinality({i \in 1..Len(log) : log[i].time < t})

----------------------------------------------------------------------------
(* State machine *)

Variants == {"gesture", "simple", "opencv", "enhanced"}

\* while True: ... break -- an iteration (and, in the click programs, a mouse
\* callback, which runs inside waitKey) starts only while run has not left
\* its loop.
loop_entered_always(p) == TRUE

loop_entered(p) == p = "running"

\* The frame size: 1280x720 where the program requests it (cap.set) and falls
\* back to it; in simple_demo.py, which requests nothing, what cap.get
\* reports: the driver's default 640x480 or 1280x720.
FrameSizes(v) ==
    IF v = "simple" THEN {<<640, 480>>, <<1280, 720>>} ELSE {<<1280, 720>>}

\* __init__ of the four classes
InitOf(V) ==
    /\ variant \in V
    /\ pc = "running"
    /\ now = StartTime
    /\ typed_text = <<>>
    /\ last_key_time = 0
    /\ current_key = None
    /\ pos = NoPoint
    /\ thumb_pos = NoPoint
    /\ hand = FALSE
    /\ touching = FALSE
    /\ frame_size \in FrameSizes(variant)
    /\ injected = "none"
    /\ events = <<>>
    /\ held_fired = FALSE
    /\ closure = NoClosure
    /\ clicks = <<>>
    /\ text_before = <<>>

Init == InitOf(Variants)

\* cap.read() returns ret = False: the loop of run breaks (all variants).
ReadFail ==
    /\ loop_entered(pc)
    /\ pc' = "stopped"
    /\ UNCHANGED <<variant, now, typed_text, last_key_time, current_key, pos,
                   thumb_pos, hand, touching, frame_size, injected, events,
                   text_before, held_fired, closure, clicks>>

\* One iteration of VirtualKeyboard.run with type_key inlined; dt is the time
\* that passed since the previous iteration read the clock.
GestureFrameAt(Points, Offsets, Dts) ==
    /\ variant = "gesture"
    /\ loop_entered(pc)
    /\ \E sample \in Samples(Points, Offsets) :
        LET has_hand == sample # NoHand
            index_pos == IF has_hand THEN sample[1] ELSE NoPoint
            thumb == IF has_hand THEN <<index_pos[1] + sample[2][1], index_pos[2] + sample[2][2]>>
                     ELSE NoPoint
        IN
        \E key \in {IF has_hand THEN get_key_at_position(index_pos[1], index_pos[2])
                    ELSE None},
           dt \in Dts :
        LET current_time == now + dt
            touch == has_hand /\ is_finger_touching_thumb(thumb, index_pos)
            fire == touch /\ key # None /\ DebounceElapsed(current_time, last_key_time)
            log == IF fire THEN Append(events, [key |-> key, time |-> current_time]) ELSE events
        IN
        \E quit \in BOOLEAN, press_ok \in (IF fire THEN BOOLEAN ELSE {TRUE}) :
        LET survived == ~fire \/ injection_survived(press_ok)
        IN  /\ current_time <= StartTime + MaxTicks
            /\ now' = current_time
            /\ hand' = has_hand
            /\ current_key' = key
            /\ pos' = index_pos
            /\ thumb_pos' = thumb
            /\ touching' = touch
            /\ typed_text' = IF fire THEN type_key_text(key, typed_text) ELSE typed_text
            /\ last_key_time' =
                 IF touch /\ key # None /\ survived
                 THEN type_key_time(key, typed_text, current_time, last_key_time)
                 ELSE last_key_time
            /\ injected' = IF ~fire THEN "none" ELSE IF press_ok THEN "ok" ELSE "failed"
            /\ pc' = IF ~survived THEN "crashed" ELSE IF quit THEN "stopped" ELSE "running"
            /\ events' = log
            /\ text_before' = IF fire THEN typed_text ELSE text_before
            /\ held_fired' = IF ~touch THEN FALSE ELSE IF fire THEN TRUE ELSE held_fired
            /\ closure' =
                 IF touch /\ ~touching
                 THEN LET again == closure.fired /\ closure.key = key
                      IN  [time |-> current_time, key |-> key, fired |-> fire,
                           gap |-> IF again THEN current_time - closure.time ELSE -1,
                           grown |-> IF again THEN Len(log) - Before(events, closure.time)
                                     ELSE 0]
                 ELSE closure
    /\ UNCHANGED <<variant, frame_size, clicks>>

GestureFrame == GestureFrameAt(SamplePoints, GestureOffsets, 0..MaxDt)

\* One iteration of SimpleVirtualKeyboard.run (simple_demo.py)
SimpleFrameAt(Points, Offsets) ==
    /\ variant = "simple"
    /\ loop_entered(pc)
    /\ Len(events) < MaxEvents
    /\ \E sample \in Samples(Points, Offsets), quit \in BOOLEAN :
        LET has_hand == sample # NoHand
            finger_pos == IF has_hand THEN sample[1] ELSE NoPoint
            thumb == IF has_hand
                     THEN <<finger_pos[1] + sample[2][1], finger_pos[2] + sample[2][2]>>
                     ELSE NoPoint
        IN
        \E key \in {IF has_hand THEN simple_get_key_at_position(finger_pos) ELSE None} :
        LET touch == has_hand /\ is_touching(thumb, finger_pos)
            fire == touch /\ key # None
        IN  /\ hand' = has_hand
            /\ current_key' = key
            /\ pos' = finger_pos
            /\ thumb_pos' = thumb
            /\ touching' = touch
            /\ typed_text' = IF fire THEN typed_text \o Chars(key) ELSE typed_text
            /\ pc' = IF quit THEN "stopped" ELSE "running"
            /\ events' = IF fire THEN Append(events, [key |-> key, time |-> now])
                         ELSE events
            /\ text_before' = IF fire THEN typed_text ELSE text_before
            /\ held_fired' = IF ~touch THEN FALSE ELSE IF fire THEN TRUE ELSE held_fired
    /\ UNCHANGED <<variant, now, last_key_time, frame_size, injected, closure, clicks>>

\* SimpleVirtualKeyboard.mouse_callback (test_opencv.py)
OpencvMouseAt(Points, Events) ==
    /\ variant = "opencv"
    /\ loop_entered(pc)
    /\ \E event \in Events, p \in Points :
        \E key \in {get_key_at_position(p[1], p[2])} :
        LET down == event = EVENT_LBUTTONDOWN
            fire == down /\ key # None
        IN  /\ down => Len(clicks) < MaxClicks
            /\ typed_text' = IF fire THEN opencv_click_text(key, typed_text) ELSE typed_text
            /\ events' = IF fire THEN Append(events, [key |-> key, time |-> now])
                         ELSE events
            /\ text_before' = IF fire THEN typed_text ELSE text_before
            /\ clicks' = IF down THEN Append(clicks, p) ELSE clicks
            /\ pos' = p
    /\ UNCHANGED <<variant, pc, now, last_key_time, current_key, thumb_pos, hand,
                   touching, frame_size, injected, held_fired, closure>>

\* EnhancedVirtualKeyboard.mouse_callback (enhanced_demo.py)
EnhancedMouseAt(Points, Events) ==
    /\ variant = "enhanced"
    /\ loop_entered(pc)
    /\ \E event \in Events, p \in Points :
        \E key \in {get_key_at_position(p[1], p[2])} :
        LET down == event = EVENT_LBUTTONDOWN
            fire == down /\ key # None
        IN  /\ down => Len(clicks) < MaxClicks
            /\ pos' = p
            /\ current_key' = key
            /\ typed_text' = IF fire THEN enhanced_click_text(key, typed_text)
                             ELSE typed_text
            /\ events' = IF fire THEN Append(events, [key |-> key, time |-> now])
                         ELSE events
            /\ text_before' = IF fire THEN typed_text ELSE text_before
            /\ clicks' = IF down THEN Append(clicks, p) ELSE clicks
    /\ UNCHANGED <<variant, pc, now, last_key_time, thumb_pos, hand, touching,
                   frame_size, injected, held_fired, closure>>

SimpleFrame == SimpleFrameAt(SimplePoints, SimpleOffsets)

OpencvMouse == OpencvMouseAt(SamplePoints, MouseEvents)

EnhancedMouse == EnhancedMouseAt(SamplePoints, MouseEvents)

\* One iteration of run in test_opencv.py / enhanced_demo.py: draw, show,
\* then the quit check.
ClickLoopFrame ==
    /\ variant \in {"opencv", "enhanced"}
    /\ loop_entered(pc)
    /\ \E quit \in BOOLEAN : pc' = IF quit THEN "stopped" ELSE "running"
    /\ UNCHANGED <<variant, now, typed_text, last_key_time, current_key, pos,
                   thumb_pos, hand, touching, frame_size, injected, events,
                   text_before, held_fired, closure, clicks>>

Next ==
    \/ ReadFail
    \/ GestureFrame
    \/ SimpleFrame
    \/ OpencvMouse
    \/ EnhancedMouse
    \/ ClickLoopFrame

Spec == Init /\ [][Next]_vars

(* The layout lookup on its own: the first sample of a session (thumb apart),
   the first mouse move and the first click of a session land on any grid
   position. *)
InitResolve == InitOf({"gesture", "opencv", "enhanced"})

ResolveGestureFrame == pos = NoPoint /\ GestureFrameAt(GridPoints, {<<18, 24>>}, {0})

ResolveMouseMove == pos = NoPoint /\ EnhancedMouseAt(GridPoints, {"MOUSEMOVE"})

ResolveClick == pos = NoPoint /\ OpencvMouseAt(GridPoints, {EVENT_LBUTTONDOWN})

NextResolve == ResolveGestureFrame \/ ResolveMouseMove \/ ResolveClick

SpecResolve == InitResolve /\ [][NextResolve]_vars

(* The lookups of both shipped layouts: the above, and the first sample of a
   session of simple_demo.py on any position of its grid. *)
InitLayouts == InitOf(Variants)

ResolveSimpleFrame == pos = NoPoint /\ SimpleFrameAt(SimpleGridPoints, SimpleOffsets)

NextLayouts == NextResolve \/ ResolveSimpleFrame

SpecLayouts == InitLayouts /\ [][NextLayouts]_vars

----------------------------------------------------------------------------
(* Vocabulary of the properties *)

LastEvent == events[Len(events)]

EventKeys(log) == [i \in 1..Len(log) |-> log[i].key]

Fired == Len(events') = Len(events) + 1

\* Squared distance between the thumb tip and the index tip of the last sample
SampleDistSq ==
    (thumb_pos[1] - pos[1]) * (thumb_pos[1] - pos[1])
  + (thumb_pos[2] - pos[2]) * (thumb_pos[2] - pos[2])

\* The rectangle of slot (r, c) of the four-row layout, r and c counted from 1
RectLeft(c) == keyboard_start_x + (c - 1) * (key_width + key_margin)

RectTop(r) == keyboard_start_y + (r - 1) * (key_height + key_margin)

Slots == {rc \in (1..Len(keyboard_layout)) \X (1..Len(keyboard_layout[1])) :
             rc[2] <= Len(keyboard_layout[rc[1]])}

StrictlyInside(rc, p) ==
    /\ RectLeft(rc[2]) < p[1] /\ p[1] < RectLeft(rc[2]) + key_width
    /\ RectTop(rc[1]) < p[2] /\ p[2] < RectTop(rc[1]) + key_height

OnOrInside(rc, p) ==
    /\ RectLeft(rc[2]) <= p[1] /\ p[1] <= RectLeft(rc[2]) + key_width
    /\ RectTop(rc[1]) <= p[2] /\ p[2] <= RectTop(rc[1]) + key_height

LabelAt(rc) == keyboard_layout[rc[1]][rc[2]]

IsLetter(label) == label \notin {None, "SPACE", "BACK"}

\* The key the program resolved for pos: current_key, or, in test_opencv.py
\* (which keeps no current_key), the key of the event the click applied.
Resolved ==
    IF variant = "opencv" THEN (IF events = <<>> THEN None ELSE LastEvent.key)
    ELSE current_key

----------------------------------------------------------------------------
C2_EventsSeparated ==
    variant = "gesture" =>
        \A i, j \in 1..Len(events) :
            i < j => events[j].time - events[i].time >= key_press_delay

C2_Witness ==
    /\ variant = "gesture"
    /\ Len(events) = 2
    /\ touching /\ held_fired

(* C3: with key_press_delay = 0.5 s, two pinch closures over the same key, the
   first of which emitted, count one event in all when they are 0.2 s apart
   and two events when they are 0.6 s apart. *)
C3_TwoClosures ==
    variant = "gesture" =>
        /\ closure.gap = 2 => closure.grown = 1
        /\ closure.gap = 6 => closure.grown = 2

C3_Witness ==
    /\ variant = "gesture"
    /\ closure.gap = 6
    /\ closure.grown = 2
    /\ closure.fired
    /\ typed_text = <<"Q", "Q">>

C3_WitnessShortGap ==
    /\ variant = "gesture"
    /\ closure.gap = 2
    /\ closure.grown = 1
    /\ typed_text = <<"Q">>

(* C4 as stated: a pinch over a key exactly key_press_delay after the last
   emitted event emits an event; so no frame with the pinch closed over a key
   leaves the last event exactly key_press_delay in the past. *)
C4_InclusiveDebounce ==
    (/\ variant = "gesture"
     /\ touching
     /\ current_key # None
     /\ events # <<>>) => now - LastEvent.time # key_press_delay

(* C5: the touching test is strict: a sample is a pinch exactly when its
   thumb-to-index distance is below the threshold, and a sample at the
   threshold or beyond emits no event (gesture keyboard and simple demo). *)
C5_StrictTouch ==
    [][(variant \in {"gesture", "simple"} /\ hand') =>
         LET thr == IF variant = "gesture" THEN touch_threshold ELSE simple_touch_threshold
         IN  /\ touching' <=> SampleDistSq' < thr * thr
             /\ SampleDistSq' >= thr * thr => events' = events]_vars

C5_Witness ==
    /\ variant = "gesture"
    /\ hand
    /\ SampleDistSq = touch_threshold * touch_threshold
    /\ ~touching
    /\ current_key = "Q"
    /\ events = <<>>

(* C6: a point strictly inside the rectangle of slot (r, c) resolves to the
   key of that slot; a point outside every rectangle resolves to None. *)
C6_ResolveInsideOutside ==
    pos # NoPoint =>
        /\ \A rc \in Slots : StrictlyInside(rc, pos) => Resolved = LabelAt(rc)
        /\ (\A rc \in Slots : ~OnOrInside(rc, pos)) => Resolved = None

C6_Witness ==
    /\ pos = <<245, 685>>
    /\ StrictlyInside(<<4, 2>>, pos)
    /\ Resolved = "BACK"

(* C7: rectangles include their boundary: a point on an edge or corner of a
   slot resolves to its key; (150,450) and (200,500) resolve to Q and
   (219,450) resolves to None. *)
C7_BoundaryInclusive ==
    pos # NoPoint =>
        /\ \A rc \in Slots : OnOrInside(rc, pos) => Resolved = LabelAt(rc)
        /\ pos = <<150, 450>> => Resolved = "Q"
        /\ pos = <<200, 500>> => Resolved = "Q"
        /\ pos = <<219, 450>> => Resolved = None

C7_Witness ==
    /\ pos = <<200, 500>>
    /\ Resolved = "Q"

(* C8: an emitted key event changes the buffer as its key says: SPACE appends
   one space, BACK drops the last character of a non-empty buffer, any other
   key appends its label; the rest of the buffer is kept (gesture keyboard
   and both click handlers). *)
C8_KeyApplication ==
    [][(variant \in {"gesture", "opencv", "enhanced"} /\ Fired) =>
         LET k == events'[Len(events')].key
             keep == IF Len(typed_text') < Len(typed_text) THEN Len(typed_text')
                     ELSE Len(typed_text)
         IN  /\ k = "SPACE" => typed_text' = Append(typed_text, " ")
             /\ (k = "BACK" /\ typed_text # <<>>) =>
                    /\ Len(typed_text') = Len(typed_text) - 1
                    /\ typed_text = Append(typed_text', typed_text[Len(typed_text)])
             /\ k \notin {"SPACE", "BACK"} => typed_text' = typed_text \o Chars(k)
             /\ SubSeq(typed_text', 1, keep) = SubSeq(typed_text, 1, keep)]_vars

C8_Witness ==
    /\ variant = "gesture"
    /\ EventKeys(events) = <<"Q", "BACK">>
    /\ typed_text = <<>>

(* C9: a BACK event on an empty buffer leaves it empty and the program
   running or stopped as it was; after SPACE, BACK, BACK from an empty buffer
   the buffer is empty. *)
C9_BackNeverUnderflows ==
    [][(variant \in {"gesture", "opencv", "enhanced"} /\ Fired) =>
         /\ (events'[Len(events')].key = "BACK" /\ typed_text = <<>>) =>
                typed_text' = <<>> /\ pc' \in {"running", "stopped"}
         /\ EventKeys(events') = <<"SPACE", "BACK", "BACK">> => typed_text' = <<>>]_vars

C9_Witness ==
    /\ variant = "opencv"
    /\ EventKeys(events) = <<"SPACE", "BACK", "BACK">>
    /\ typed_text = <<>>

(* C10: in the click variants every left-button-down inside a key applies
   exactly one key event, whatever the time since the previous click; clicks
   on letter keys only lengthen the buffer by one each. *)
C10_OneEventPerClick ==
    [][(variant \in {"opencv", "enhanced"} /\ Len(clicks') = Len(clicks) + 1) =>
         LET p == clicks'[Len(clicks')]
         IN  /\ \A rc \in Slots : OnOrInside(rc, p) =>
                    /\ Fired
                    /\ events'[Len(events')].key = LabelAt(rc)
                    /\ IsLetter(LabelAt(rc)) => Len(typed_text') = Len(typed_text) + 1
             /\ (\A i \in 1..Len(clicks') :
                    \E rc \in Slots : OnOrInside(rc, clicks'[i]) /\ IsLetter(LabelAt(rc)))
                  => Len(typed_text') = Len(clicks')]_vars

C10_Witness ==
    /\ variant = "enhanced"
    /\ clicks = <<<<150, 450>>, <<150, 450>>, <<150, 450>>>>
    /\ typed_text = <<"Q", "Q", "Q">>
    /\ now = StartTime

(* C12: in the gesture keyboard, whether pyautogui.press returned or raised
   inside type_key makes no difference: after an emitted event the buffer is
   the key applied to the old buffer, last_key_time is the time of the call,
   and the loop has not been left by an exception. *)
C12_InjectionFailureSwallowed ==
    [][(variant = "gesture" /\ Fired) =>
         /\ injected' \in {"ok", "failed"}
         /\ typed_text' = type_key_text(events'[Len(events')].key, typed_text)
         /\ last_key_time' = now'
         /\ pc' \in {"running", "stopped"}]_vars

C12_Witness ==
    /\ variant = "gesture"
    /\ injected = "failed"
    /\ pc = "running"
    /\ EventKeys(events) = <<"Q", "Q">>
    /\ typed_text = <<"Q", "Q">>
    /\ last_key_time = now

\* A point brought into a surface of the given <<width, height>>
Clamp(p, size) ==
    LET Into(v, n) == IF v < 0 THEN 0 ELSE IF v > n - 1 THEN n - 1 ELSE v
    IN  <<Into(p[1], size[1]), Into(p[2], size[2])>>

OutsideSurface(p, size) == p # Clamp(p, size)

\* The rectangles setup_keyboard built that contain p, edges included
SimpleSlotsAt(p) ==
    {i \in DOMAIN key_positions :
        /\ key_positions[i].x <= p[1]
        /\ p[1] <= key_positions[i].x + key_positions[i].width
        /\ key_positions[i].y <= p[2]
        /\ p[2] <= key_positions[i].y + key_positions[i].height}

\* The key whose rectangle contains p in the layout of the running variant
KeyAt(p) ==
    IF variant = "simple"
    THEN IF SimpleSlotsAt(p) = {} THEN None
         ELSE key_positions[CHOOSE i \in SimpleSlotsAt(p) : TRUE].key
    ELSE LET hits == {rc \in Slots : OnOrInside(rc, p)}
         IN  IF hits = {} THEN None ELSE LabelAt(CHOOSE rc \in hits : TRUE)

(* C13 as stated: the key hovered in a frame with a hand is the key at the
   fingertip position clamped into the frame, also when the fingertip lies
   outside the frame. *)
C13_ClampedBeforeResolve ==
    (variant \in {"gesture", "simple"} /\ hand) =>
        current_key = KeyAt(Clamp(pos, frame_size))

\* The sample of the step's frame has a hand whose pinch distance is at or
\* above the running variant's threshold.
PinchOpenNext ==
    LET dx == thumb_pos'[1] - pos'[1]
        dy == thumb_pos'[2] - pos'[2]
        limit == IF variant = "simple" THEN simple_touch_threshold ELSE touch_threshold
    IN  hand' /\ dx * dx + dy * dy >= limit * limit

(* C14: the buffer is unchanged by a step whose sample has the pinch open, or
   the pinch closed with no key hovered, or (gesture keyboard) the pinch closed
   less than key_press_delay after the last event, or no hand; and by a mouse
   event that is not a click, and a click outside every key rectangle. *)
C14_BufferOnlyByQualifyingStep ==
    [][/\ (variant \in {"gesture", "simple"} /\ PinchOpenNext)
            => typed_text' = typed_text
       /\ (variant \in {"gesture", "simple"} /\ touching' /\ current_key' = None)
            => typed_text' = typed_text
       /\ (variant = "gesture" /\ touching' /\ events # <<>>
             /\ now' - LastEvent.time < key_press_delay)
            => typed_text' = typed_text
       /\ (variant \in {"gesture", "simple"} /\ ~hand')
            => typed_text' = typed_text
       /\ (variant \in {"opencv", "enhanced"} /\ clicks' = clicks)
            => typed_text' = typed_text
       /\ (variant \in {"opencv", "enhanced"} /\ Len(clicks') = Len(clicks) + 1
             /\ \A rc \in Slots : ~OnOrInside(rc, clicks'[Len(clicks')]))
            => typed_text' = typed_text]_vars

C14_Witness ==
    /\ variant = "gesture"
    /\ touching
    /\ ~held_fired
    /\ current_key = "Q"
    /\ EventKeys(events) = <<"Q">>
    /\ now - LastEvent.time = 2
    /\ typed_text = <<"Q">>

(* C15 as stated: in the simple gesture demo, once a closed pinch over a key
   has appended the key, a further sample with the pinch still closed over the
   same key appends nothing. *)
C15_SimpleHeldAppendsOnce ==
    [][(variant = "simple" /\ touching /\ held_fired /\ current_key # None
          /\ touching' /\ current_key' = current_key)
         => Len(typed_text') = Len(typed_text)]_vars

(* C16 as stated: in the gesture keyboard, when the pinch is closed and has
   emitted nothing since it closed, a sample with the pinch still closed, a key
   hovered and at least key_press_delay since the last event emits exactly one
   event, for the key hovered at that sample. *)
C16_HeldPinchEmitsWhenReached ==
    [][(variant = "gesture" /\ touching /\ ~held_fired
          /\ touching' /\ current_key' # None
          /\ (events = <<>> \/ now' - LastEvent.time >= key_press_delay))
         => /\ Fired
            /\ events'[Len(events')].key = current_key'
            /\ events'[Len(events')].time = now']_vars

(* C17: in both shipped layouts a point lies in at most one key rectangle,
   edges included, and the key the program resolves for it is the key of that
   rectangle (None when there is none). *)
C17_UniqueContainingKey ==
    pos # NoPoint =>
        /\ variant = "simple" =>
             /\ Cardinality(SimpleSlotsAt(pos)) <= 1
             /\ hand => current_key = KeyAt(pos)
        /\ variant # "simple" =>
             /\ Cardinality({rc \in Slots : OnOrInside(rc, pos)}) <= 1
             /\ Resolved = KeyAt(pos)

C17_Witness ==
    /\ variant = "simple"
    /\ pos = <<220, 500>>
    /\ SimpleSlotsAt(pos) = {2}
    /\ current_key = "B"

(* C18: once run has left its loop (quit key or failed read) nothing is
   processed any more: the buffer, the event log, the clock reading and the
   hovered position stay as they are; and the iteration that observed the quit
   key applied its key event completely (buffer, injection call,
   last_key_time). *)
C18_StopsOnQuit ==
    [][/\ pc = "stopped" =>
            /\ pc' = "stopped"
            /\ typed_text' = typed_text
            /\ events' = events
            /\ clicks' = clicks
            /\ last_key_time' = last_key_time
            /\ pos' = pos
       /\ (variant = "gesture" /\ pc = "running" /\ pc' = "stopped" /\ Fired) =>
            /\ typed_text' = type_key_text(events'[Len(events')].key, typed_text)
            /\ injected' # "none"
            /\ last_key_time' = now']_vars

C18_Witness ==
    /\ variant = "gesture"
    /\ pc = "stopped"
    /\ injected = "ok"
    /\ EventKeys(events) = <<"Q", "SPACE">>
    /\ typed_text = <<"Q", " ">>
    /\ last_key_time = now

(* C19: in the gesture keyboard a sample with the pinch closed that emits
   nothing (no key hovered, or less than key_press_delay since the last event)
   leaves last_key_time alone; last_key_time is always the time of the last
   emitted event, so a closed pinch over a key more than key_press_delay after
   that event emits, whatever was suppressed in between. *)
C19_SuppressedPinchKeepsWindow ==
    [][variant = "gesture" =>
         /\ (touching' /\ (\/ current_key' = None
                           \/ events # <<>> /\ now' - LastEvent.time < key_press_delay))
              => last_key_time' = last_key_time /\ events' = events
         /\ events' # <<>> => last_key_time' = events'[Len(events')].time
         /\ (touching' /\ current_key' # None /\ events # <<>>
               /\ now' - LastEvent.time > key_press_delay)
              => Fired]_vars

\* A pinch that closed over Q 2 ticks after the first event and was held,
\* suppressed, until it emitted the second event 6 ticks after the first.
C19_Witness ==
    /\ variant = "gesture"
    /\ Len(events) = 2
    /\ events[2].time - events[1].time = key_press_delay + 1
    /\ closure.time = events[1].time + 2
    /\ ~closure.fired
    /\ closure.key = "Q"
    /\ now = events[2].time
    /\ last_key_time = now

(* C20: in the gesture keyboard a closed pinch over BACK with an empty buffer
   and more than key_press_delay since last_key_time is an emitted event: the
   buffer stays empty, pyautogui.press is called and last_key_time becomes the
   current time; a closed pinch less than key_press_delay after it emits
   nothing. *)
C20_BackOnEmptyIsAnEvent ==
    [][variant = "gesture" =>
         /\ (touching' /\ current_key' = "BACK" /\ typed_text = <<>>
               /\ now' - last_key_time > key_press_delay)
              => /\ Fired
                 /\ events'[Len(events')] = [key |-> "BACK", time |-> now']
                 /\ typed_text' = <<>>
                 /\ injected' \in {"ok", "failed"}
                 /\ last_key_time' = now'
         /\ (events # <<>> /\ LastEvent.key = "BACK" /\ typed_text = <<>>
               /\ touching' /\ now' - LastEvent.time < key_press_delay)
              => events' = events /\ typed_text' = <<>>]_vars

C20_Witness ==
    /\ variant = "gesture"
    /\ EventKeys(events) = <<"BACK">>
    /\ typed_text = <<>>
    /\ touching
    /\ current_key = "Q"
    /\ last_key_time = LastEvent.time
    /\ now - LastEvent.time = 3

\* The single-character labels of the four-row layout
LetterLabels == {LabelAt(rc) : rc \in {s \in Slots : IsLetter(LabelAt(s))}}

(* C21: on the four-row layout the buffer after every step consists of letter
   labels of the layout and spaces only, and a step changes its length by at
   most one: neither SPACE nor BACK is ever appended as its label. *)
C21_BufferAlphabet ==
    [][(variant \in {"gesture", "opencv", "enhanced"}) =>
         /\ \A i \in 1..Len(typed_text') : typed_text'[i] \in LetterLabels \cup {" "}
         /\ Len(typed_text') - Len(typed_text) \in {-1, 0, 1}
         /\ (Fired /\ events'[Len(events')].key = "SPACE") =>
                /\ Len(typed_text') = Len(typed_text) + 1
                /\ typed_text' = Append(typed_text, " ")]_vars

C21_Witness ==
    /\ variant = "opencv"
    /\ EventKeys(events) = <<"Q", "SPACE", "SPACE">>
    /\ typed_text = <<"Q", " ", " ">>

(* C22: on the four-row layout, a BACK event that follows the event of any
   other key puts the buffer back to what it was before that key's event. *)
C22_BackUndoesKey ==
    [][(variant \in {"gesture", "opencv", "enhanced"} /\ Fired
          /\ events'[Len(events')].key = "BACK"
          /\ events # <<>> /\ LastEvent.key # "BACK")
         => typed_text' = text_before]_vars

C22_Witness ==
    /\ variant = "enhanced"
    /\ EventKeys(events) = <<"SPACE", "Q", "BACK">>
    /\ text_before = <<" ", "Q">>
    /\ typed_text = <<" ">>

====
